---------------------------- MODULE Spec2Model ----------------------------
(***************************************************************************)
(* A model of gcal.py: one run of main(), from argument parsing through    *)
(* credential acquisition (get_service), the three subcommands (cmd_add,   *)
(* cmd_next, cmd_today), the presenter (print_event) and the top-level     *)
(* exception handler.                                                      *)
(*                                                                         *)
(* Strings that the program inspects (the start values of events and the   *)
(* today string) are sequences of one-character strings in a scaled-down   *)
(* ISO format: a date is "MD" (two digits), a date-time is "MDThh" (date,  *)
(* the letter T, a two-digit hour).  Prefix matching, parsing and 12-hour  *)
(* formatting are computed on these sequences.                             *)
(*                                                                         *)
(* Writes to the token file, prints to stdout and the local construction   *)
(* of the service object (build) are taken to succeed; the remote calls    *)
(* (refresh, interactive flow, quickAdd, list) and the deserialization of  *)
(* the token file may fail.                                                *)
(***************************************************************************)
EXTENDS Integers, Sequences, FiniteSets, TLC

\* Longest event list a list call returns in the model.
MaxEvents == 3
\* Most text tokens on the command line of 'add'.
MaxWords == 2

VARIABLES
    pc,         \* position of the run in main / get_service / the command
    argv,       \* the command line: [cmd, nwords]
    file0,      \* content of token.json when the run starts
    tokenFile,  \* content of token.json: [kind, cred]
    creds,      \* get_service's local creds: [some, cred]
    events,     \* the items of the list call's result
    today,      \* today_str of cmd_today
    idx,        \* position of cmd_today's for loop in events
    count,      \* cmd_today's count
    out,        \* the lines printed to stdout, in order
    log,        \* the side effects of the run, in order
    err,        \* the exception in flight ("none" when there is none)
    exitCode    \* -1 while running, then the process's exit status

vars == <<pc, argv, file0, tokenFile, creds, events, today, idx, count, out, log, err, exitCode>>

-----------------------------------------------------------------------------
\* Strings

Digits == {"0", "1", "2", "3", "4", "5", "6", "7", "8", "9"}

DigitVal(c) ==
    CASE c = "0" -> 0 [] c = "1" -> 1 [] c = "2" -> 2 [] c = "3" -> 3
      [] c = "4" -> 4 [] c = "5" -> 5 [] c = "6" -> 6 [] c = "7" -> 7
      [] c = "8" -> 8 [] c = "9" -> 9

DigitChar(n) ==
    CASE n = 0 -> "0" [] n = 1 -> "1" [] n = 2 -> "2" [] n = 3 -> "3"
      [] n = 4 -> "4" [] n = 5 -> "5" [] n = 6 -> "6" [] n = 7 -> "7"
      [] n = 8 -> "8" [] n = 9 -> "9"

\* str.startswith
StartsWith(s, p) ==
    /\ Len(p) <= Len(s)
    /\ SubSeq(s, 1, Len(p)) = p

-----------------------------------------------------------------------------
\* Credentials

\* A google.oauth2 Credentials object: token present, expiry passed,
\* refresh token present, and where it came from (0 the file, 1 a refresh,
\* 2 the interactive flow).
Cred(t, e, r, g) == [hasToken |-> t, expired |-> e, refresh |-> r, gen |-> g]

FileCreds == {Cred(t, e, r, 0) : t \in BOOLEAN, e \in BOOLEAN, r \in BOOLEAN}

NoCred == Cred(FALSE, FALSE, FALSE, 0)

\* creds.valid
CredsValid(c) == c.hasToken /\ ~c.expired

\* not creds or not creds.valid
NeedsAuthDroppedNot(c) == ~c.some \/ CredsValid(c.cred)

NeedsAuth(c) == ~c.some \/ ~CredsValid(c.cred)

\* creds and creds.expired and creds.refresh_token
CanRefreshTestsToken(c) == c.some /\ c.cred.expired /\ c.cred.hasToken

CanRefresh(c) == c.some /\ c.cred.expired /\ c.cred.refresh

TokenFiles ==
    {[kind |-> "absent", cred |-> NoCred], [kind |-> "corrupt", cred |-> NoCred]}
    \cup {[kind |-> "ok", cred |-> c] : c \in FileCreds}

-----------------------------------------------------------------------------
\* Events

\* An event record of the API: which keys it holds and their values.
Event(hs, hdt, dt, hd, d, hsum) ==
    [hasStart |-> hs, hasDateTime |-> hdt, dateTime |-> dt,
     hasDate |-> hd, date |-> d, hasSummary |-> hsum]

Todays == {<<"1", "1">>, <<"1", "2">>}

EventShapes ==
    { Event(TRUE, TRUE, <<"1", "1", "T", "0", "9">>, FALSE, <<>>, TRUE),
      Event(TRUE, TRUE, <<"1", "1", "T", "1", "4">>, FALSE, <<>>, FALSE),
      Event(TRUE, TRUE, <<"1", "2", "T", "0", "0">>, FALSE, <<>>, TRUE),
      Event(TRUE, FALSE, <<>>, TRUE, <<"1", "1">>, TRUE),
      Event(TRUE, TRUE, <<"1", "2", "T", "1", "2">>, TRUE, <<"1", "1">>, TRUE),
      Event(TRUE, TRUE, <<"1", "1", "x">>, FALSE, <<>>, TRUE),
      Event(TRUE, FALSE, <<>>, FALSE, <<>>, TRUE),
      Event(FALSE, FALSE, <<>>, FALSE, <<>>, TRUE) }

RECURSIVE ListsUpTo(_)
ListsUpTo(n) ==
    IF n = 0 THEN {<<>>}
    ELSE LET shorter == ListsUpTo(n - 1)
         IN  shorter \cup {Append(l, e) : l \in {s \in shorter : Len(s) = n - 1},
                                          e \in EventShapes}

EventLists == ListsUpTo(MaxEvents)

-----------------------------------------------------------------------------
\* Presenter

\* event['start'].get('dateTime', event['start'].get('date')):
\* a KeyError when the event has no 'start', None when 'start' holds neither
\* key, the dateTime when there is one, else the date.
GetStart(event) ==
    IF ~event.hasStart THEN [tag |-> "KeyError", val |-> <<>>]
    ELSE IF event.hasDateTime THEN [tag |-> "str", val |-> event.dateTime]
    ELSE IF event.hasDate THEN [tag |-> "str", val |-> event.date]
    ELSE [tag |-> "None", val |-> <<>>]

\* A date "MD": month and day are digits from 1 to 9.
IsDate(s) ==
    /\ Len(s) = 2
    /\ s[1] \in Digits \ {"0"}
    /\ s[2] \in Digits \ {"0"}

\* datetime.datetime.fromisoformat on a string: a date alone parses (to
\* midnight); a date, one separator character and an hour 00..23 parses;
\* anything else is a ValueError.
FromIsoFormat(s) ==
    IF IsDate(s) THEN [ok |-> TRUE, hour |-> 0]
    ELSE IF /\ Len(s) = 5
            /\ IsDate(SubSeq(s, 1, 2))
            /\ s[4] \in Digits
            /\ s[5] \in Digits
            /\ 10 * DigitVal(s[4]) + DigitVal(s[5]) <= 23
         THEN [ok |-> TRUE, hour |-> 10 * DigitVal(s[4]) + DigitVal(s[5])]
         ELSE [ok |-> FALSE, hour |-> 0]

\* dt.strftime("%I:%M %p"), hours only: the 12-hour clock hour on two
\* digits, then AM or PM.
StrfTime(hour) ==
    LET h12 == IF hour % 12 = 0 THEN 12 ELSE hour % 12
    IN  <<DigitChar(h12 \div 10), DigitChar(h12 % 10),
          IF hour < 12 THEN "A" ELSE "P", "M">>

AllDay == <<"A", "l", "l", " ", "D", "a", "y">>

\* A printed line.
Line(kind) == [kind |-> kind, idx |-> 0, prefix |-> "", time |-> <<>>, msg |-> "none"]

EventLine(i, prefix, time) ==
    [kind |-> "event", idx |-> i, prefix |-> prefix, time |-> time, msg |-> "none"]

ErrorLine(msg) == [kind |-> "Error", idx |-> 0, prefix |-> "", time |-> <<>>, msg |-> msg]

\* print_event(event, prefix) for the event at position i: the exception it
\* raises ("none" when it returns) and the line it prints.
print_event(event, i, prefix) ==
    LET start == GetStart(event)
    IN  IF start.tag = "KeyError" THEN [exc |-> "KeyError", line |-> Line("none")]
        ELSE IF ~event.hasSummary THEN [exc |-> "KeyError", line |-> Line("none")]
        ELSE IF start.tag = "None" THEN [exc |-> "TypeError", line |-> Line("none")]
        ELSE LET dt == FromIsoFormat(start.val)
             IN  [exc |-> "none",
                  line |-> EventLine(i, prefix,
                                     IF dt.ok THEN StrfTime(dt.hour) ELSE AllDay)]

\* A side effect of the run.
Op(name) == [op |-> name, arg |-> 0]

CallPrintEvent(i) == [op |-> "print_event", arg |-> i]

-----------------------------------------------------------------------------
\* main

Commands == {"add", "next", "today"}

ArgvSet == [cmd : Commands \cup {"", "bogus"}, nwords : 0..MaxWords]

\* What argparse accepts: a known subcommand; 'add' with at least one text
\* token, 'next' and 'today' with none.
ArgsValid(a) ==
    /\ a.cmd \in Commands
    /\ IF a.cmd = "add" THEN a.nwords >= 1 ELSE a.nwords = 0

Init ==
    /\ pc = "parse"
    /\ argv \in ArgvSet
    /\ file0 \in TokenFiles
    /\ tokenFile = file0
    /\ creds = [some |-> FALSE, cred |-> NoCred]
    /\ events = <<>>
    /\ today = <<>>
    /\ idx = 0
    /\ count = 0
    /\ out = <<>>
    /\ log = <<>>
    /\ err = "none"
    /\ exitCode = -1

\* parser.parse_args(), outside the try block: on invalid arguments argparse
\* writes its usage message to stderr and exits with status 2.
ParseArgs ==
    /\ pc = "parse"
    /\ IF ArgsValid(argv)
       THEN /\ pc' = "exists"
            /\ exitCode' = exitCode
       ELSE /\ pc' = "exited"
            /\ exitCode' = 2
    /\ UNCHANGED <<argv, file0, tokenFile, creds, events, today, idx, count, out, log, err>>

\* if os.path.exists(token_path): creds = Credentials.from_authorized_user_file(...)
\* The deserialization of a corrupt file raises a ValueError; nothing
\* around the call catches it.
LoadToken ==
    /\ pc = "exists"
    /\ CASE tokenFile.kind = "absent" ->
              /\ pc' = "check"
              /\ UNCHANGED <<creds, log, err>>
         [] tokenFile.kind = "ok" ->
              /\ pc' = "check"
              /\ creds' = [some |-> TRUE, cred |-> tokenFile.cred]
              /\ log' = Append(log, Op("read"))
              /\ err' = err
         [] tokenFile.kind = "corrupt" ->
              /\ pc' = "handler"
              /\ err' = "ValueError"
              /\ log' = Append(log, Op("read"))
              /\ creds' = creds
    /\ UNCHANGED <<argv, file0, tokenFile, events, today, idx, count, out, exitCode>>

\* The token file written on every path, also when the loaded token is valid.
CheckCredsAlwaysWrite ==
    /\ pc = "check"
    /\ pc' = IF NeedsAuth(creds)
             THEN IF CanRefresh(creds)
                  THEN "refresh"
                  ELSE "flow"
             ELSE "write"
    /\ UNCHANGED <<argv, file0, tokenFile, creds, events, today, idx, count, out, log, err, exitCode>>

\* if not creds or not creds.valid:
\*     if creds and creds.expired and creds.refresh_token: ... else: ...
CheckCreds ==
    /\ pc = "check"
    /\ pc' = IF NeedsAuth(creds)
             THEN IF CanRefresh(creds)
                  THEN "refresh"
                  ELSE "flow"
             ELSE "build"
    /\ UNCHANGED <<argv, file0, tokenFile, creds, events, today, idx, count, out, log, err, exitCode>>

\* creds.refresh(Request()): on success the credentials hold a fresh token;
\* on failure it raises.
Refresh ==
    /\ pc = "refresh"
    /\ log' = Append(log, Op("refresh"))
    /\ \E ok \in BOOLEAN :
         IF ok
         THEN /\ creds' = [some |-> TRUE, cred |-> Cred(TRUE, FALSE, TRUE, 1)]
              /\ pc' = "write"
              /\ err' = err
         ELSE /\ pc' = "handler"
              /\ err' = "RefreshError"
              /\ creds' = creds
    /\ UNCHANGED <<argv, file0, tokenFile, events, today, idx, count, out, exitCode>>

\* flow = InstalledAppFlow.from_client_secrets_file(...); creds = flow.run_local_server(port=0)
RunFlow ==
    /\ pc = "flow"
    /\ log' = Append(log, Op("flow"))
    /\ \E ok \in BOOLEAN, r \in BOOLEAN :
         IF ok
         THEN /\ creds' = [some |-> TRUE, cred |-> Cred(TRUE, FALSE, r, 2)]
              /\ pc' = "write"
              /\ err' = err
         ELSE /\ r
              /\ pc' = "handler"
              /\ err' = "FlowError"
              /\ creds' = creds
    /\ UNCHANGED <<argv, file0, tokenFile, events, today, idx, count, out, exitCode>>

\* with open(token_path, 'w') as token: token.write(creds.to_json())
WriteToken ==
    /\ pc = "write"
    /\ tokenFile' = [kind |-> "ok", cred |-> creds.cred]
    /\ log' = Append(log, Op("write"))
    /\ pc' = "build"
    /\ UNCHANGED <<argv, file0, creds, events, today, idx, count, out, err, exitCode>>

\* return build('calendar', 'v3', credentials=creds)
Build ==
    /\ pc = "build"
    /\ log' = Append(log, Op("build"))
    /\ pc' = "dispatch"
    /\ UNCHANGED <<argv, file0, tokenFile, creds, events, today, idx, count, out, err, exitCode>>

\* main's if / elif chain on args.command
Dispatch ==
    /\ pc = "dispatch"
    /\ pc' = argv.cmd
    /\ UNCHANGED <<argv, file0, tokenFile, creds, events, today, idx, count, out, log, err, exitCode>>

\* cmd_add
CmdAdd ==
    /\ pc = "add"
    /\ log' = Append(log, Op("quickAdd"))
    /\ \E ok \in BOOLEAN :
         IF ok
         THEN /\ out' = out \o <<Line("Adding"), Line("Created"), Line("Link")>>
              /\ pc' = "exited"
              /\ exitCode' = 0
              /\ err' = err
         ELSE /\ out' = Append(out, Line("Adding"))
              /\ pc' = "handler"
              /\ err' = "ApiError"
              /\ exitCode' = exitCode
    /\ UNCHANGED <<argv, file0, tokenFile, creds, events, today, idx, count>>

\* The position of the event cmd_next hands to print_event: events[0].
NextPickLast(items) == Len(items)

NextPick(items) == 1

\* cmd_next
CmdNext ==
    /\ pc = "next"
    /\ \E ok \in BOOLEAN, items \in EventLists :
         IF ~ok
         THEN /\ items = <<>>
              /\ log' = Append(log, Op("list"))
              /\ pc' = "handler"
              /\ err' = "ApiError"
              /\ UNCHANGED <<events, out, exitCode>>
         ELSE /\ events' = items
              /\ IF items = <<>>
                 THEN /\ log' = Append(log, Op("list"))
                      /\ out' = Append(out, Line("No upcoming events found."))
                      /\ pc' = "exited"
                      /\ exitCode' = 0
                      /\ err' = err
                 ELSE LET k == NextPick(items)
                          r == print_event(items[k], k, "NEXT: ")
                      IN  /\ log' = log \o <<Op("list"), CallPrintEvent(k)>>
                          /\ IF r.exc = "none"
                             THEN /\ out' = Append(out, r.line)
                                  /\ pc' = "exited"
                                  /\ exitCode' = 0
                                  /\ err' = err
                             ELSE /\ pc' = "handler"
                                  /\ err' = r.exc
                                  /\ UNCHANGED <<out, exitCode>>
    /\ UNCHANGED <<argv, file0, tokenFile, creds, today, idx, count>>

\* cmd_today with the header and the separator printed after the list call.
CmdTodayListHeaderAfterCall ==
    /\ pc = "today"
    /\ log' = Append(log, Op("list"))
    /\ \E ok \in BOOLEAN, items \in EventLists, t \in Todays :
         IF ~ok
         THEN /\ items = <<>>
              /\ t = CHOOSE x \in Todays : TRUE
              /\ out' = out
              /\ pc' = "handler"
              /\ err' = "ApiError"
              /\ UNCHANGED <<events, today, idx, count, exitCode>>
         ELSE /\ events' = items
              /\ err' = err
              /\ IF items = <<>>
                 THEN /\ t = CHOOSE x \in Todays : TRUE
                      /\ out' = out \o <<Line("Agenda for Today"), Line("separator"),
                                         Line("No events found.")>>
                      /\ pc' = "exited"
                      /\ exitCode' = 0
                      /\ UNCHANGED <<today, idx, count>>
                 ELSE /\ out' = out \o <<Line("Agenda for Today"), Line("separator")>>
                      /\ today' = t
                      /\ idx' = 1
                      /\ count' = 0
                      /\ pc' = "scan"
                      /\ exitCode' = exitCode
    /\ UNCHANGED <<argv, file0, tokenFile, creds>>

\* cmd_today up to its for loop: the header and the separator are printed,
\* then the list call is made; an empty result prints "No events found."
\* and returns.
CmdTodayList ==
    /\ pc = "today"
    /\ log' = Append(log, Op("list"))
    /\ \E ok \in BOOLEAN, items \in EventLists, t \in Todays :
         IF ~ok
         THEN /\ items = <<>>
              /\ t = CHOOSE x \in Todays : TRUE
              /\ out' = out \o <<Line("Agenda for Today"), Line("separator")>>
              /\ pc' = "handler"
              /\ err' = "ApiError"
              /\ UNCHANGED <<events, today, idx, count, exitCode>>
         ELSE /\ events' = items
              /\ err' = err
              /\ IF items = <<>>
                 THEN /\ t = CHOOSE x \in Todays : TRUE
                      /\ out' = out \o <<Line("Agenda for Today"), Line("separator"),
                                         Line("No events found.")>>
                      /\ pc' = "exited"
                      /\ exitCode' = 0
                      /\ UNCHANGED <<today, idx, count>>
                 ELSE /\ out' = out \o <<Line("Agenda for Today"), Line("separator")>>
                      /\ today' = t
                      /\ idx' = 1
                      /\ count' = 0
                      /\ pc' = "scan"
                      /\ exitCode' = exitCode
    /\ UNCHANGED <<argv, file0, tokenFile, creds>>

\* One iteration of cmd_today's for loop, on events[idx].
TodayScan ==
    /\ pc = "scan"
    /\ idx <= Len(events)
    /\ LET event == events[idx]
           start == GetStart(event)
       IN  IF start.tag = "KeyError"
           THEN /\ pc' = "handler"
                /\ err' = "KeyError"
                /\ UNCHANGED <<idx, count, out, log>>
           ELSE IF start.tag = "None"
           THEN /\ pc' = "handler"
                /\ err' = "AttributeError"
                /\ UNCHANGED <<idx, count, out, log>>
           ELSE IF StartsWith(start.val, today)
           THEN LET r == print_event(event, idx, "")
                IN  /\ log' = Append(log, CallPrintEvent(idx))
                    /\ IF r.exc = "none"
                       THEN /\ out' = Append(out, r.line)
                            /\ count' = count + 1
                            /\ idx' = idx + 1
                            /\ UNCHANGED <<pc, err>>
                       ELSE /\ pc' = "handler"
                            /\ err' = r.exc
                            /\ UNCHANGED <<idx, count, out>>
           ELSE /\ idx' = idx + 1
                /\ UNCHANGED <<pc, err, count, out, log>>
    /\ UNCHANGED <<argv, file0, tokenFile, creds, events, today, exitCode>>

\* if count == 0
NothingPrintedInverted(n) == n # 0

NothingPrinted(n) == n = 0

\* The end of cmd_today: if count == 0: print("Nothing left for today!")
TodayFinish ==
    /\ pc = "scan"
    /\ idx > Len(events)
    /\ out' = IF NothingPrinted(count) THEN Append(out, Line("Nothing left for today!")) ELSE out
    /\ pc' = "exited"
    /\ exitCode' = 0
    /\ UNCHANGED <<argv, file0, tokenFile, creds, events, today, idx, count, log, err>>

\* A handler that prints nothing and lets the exception end the process.
HandlerReraises ==
    /\ pc = "handler"
    /\ pc' = "exited"
    /\ exitCode' = 1
    /\ UNCHANGED <<argv, file0, tokenFile, creds, events, today, idx, count, out, log, err>>

\* except Exception as e: print(f"Error: {e}"), after which main returns.
Handler ==
    /\ pc = "handler"
    /\ out' = Append(out, ErrorLine(err))
    /\ pc' = "exited"
    /\ exitCode' = 0
    /\ UNCHANGED <<argv, file0, tokenFile, creds, events, today, idx, count, log, err>>

Next ==
    \/ ParseArgs
    \/ LoadToken
    \/ CheckCreds
    \/ Refresh
    \/ RunFlow
    \/ WriteToken
    \/ Build
    \/ Dispatch
    \/ CmdAdd
    \/ CmdNext
    \/ CmdTodayList
    \/ TodayScan
    \/ TodayFinish
    \/ Handler

Spec == Init /\ [][Next]_vars

-----------------------------------------------------------------------------
\* Properties

\* How many times the side effect `name` happened so far.
NumOps(name) == Cardinality({i \in DOMAIN log : log[i].op = name})

\* How many lines of the given kind were printed so far.
NumLines(kind) == Cardinality({i \in DOMAIN out : out[i].kind = kind})

\* The list call of the command was made and returned its items.
ListReturned == NumOps("list") = 1 /\ err # "ApiError"

\* The run is over and argparse accepted its arguments.
RunEnded == pc = "exited" /\ ArgsValid(argv)

\* The event's start value is a string that begins with the today string.
Matches(event, t) ==
    /\ GetStart(event).tag = "str"
    /\ StartsWith(GetStart(event).val, t)

MatchIdx == {i \in DOMAIN events : Matches(events[i], today)}

IsEventLine(l) == l.kind = "event"

\* The event lines printed so far, in order.
PrintedEvents == SelectSeq(out, IsEventLine)

\* C1: a token file that cannot be deserialized is treated as absent: the
\* run goes on to the interactive authorization flow and does not end with
\* the error of the deserialization.
C1_CorruptTokenTreatedAsAbsent ==
    (file0.kind = "corrupt" /\ RunEnded) =>
        /\ NumOps("flow") = 1
        /\ err # "ValueError"

\* C2: every failure of a run, the rejection of the arguments by the parser
\* included, ends with exactly one 'Error: <message>' line, printed last,
\* and exit status 0.
C2_EveryFailureCaught ==
    (pc = "exited" /\ (err # "none" \/ ~ArgsValid(argv))) =>
        /\ NumLines("Error") = 1
        /\ out[Len(out)].kind = "Error"
        /\ exitCode = 0

\* C2 (amended): an exception raised after argument parsing (credential
\* acquisition, API call, formatting) is caught: exactly one line
\* 'Error: <message>' with its message is printed, last, and the exit status
\* is 0 as on success, where no Error line is printed; arguments the parser
\* rejects end the run before the try block with exit status 2 and no line
\* on stdout.
C2_FailuresAfterParsingCaught ==
    /\ pc = "handler" => err # "none"
    /\ pc = "exited" =>
         IF ~ArgsValid(argv)
         THEN exitCode = 2 /\ out = <<>> /\ log = <<>>
         ELSE /\ exitCode = 0
              /\ IF err # "none"
                 THEN /\ NumLines("Error") = 1
                      /\ out[Len(out)] = ErrorLine(err)
                 ELSE NumLines("Error") = 0

C2_Witness ==
    /\ RunEnded
    /\ err = "ApiError"
    /\ argv.cmd = "add"
    /\ out = <<Line("Adding"), ErrorLine("ApiError")>>

\* C3: when the list call of 'today' fails, nothing of the listing was
\* printed: no header, no separator, no event line.
C3_NothingPrintedOnListFailure ==
    (argv.cmd = "today" /\ err = "ApiError") =>
        /\ NumLines("Agenda for Today") = 0
        /\ NumLines("separator") = 0
        /\ NumLines("event") = 0

\* C3 (amended): when the list call of 'today' fails, the header and the
\* separator, printed before the call, are the only lines of the listing:
\* no event line and neither of the two closing messages is printed, and
\* the run ends with the Error line right after them.
C3_OnlyHeaderPrintedOnListFailure ==
    (argv.cmd = "today" /\ err = "ApiError") =>
        /\ pc \in {"handler", "exited"}
        /\ Len(out) >= 2
        /\ out[1] = Line("Agenda for Today")
        /\ out[2] = Line("separator")
        /\ pc = "handler" => Len(out) = 2
        /\ pc = "exited" => out = <<Line("Agenda for Today"), Line("separator"),
                                    ErrorLine("ApiError")>>

C3_Witness ==
    /\ argv.cmd = "today"
    /\ err = "ApiError"
    /\ pc = "exited"
    /\ Len(out) = 3

\* C4: print_event raises no error whatever the event: every call of
\* print_event prints the line of its event.
C4_PrintEventNeverRaises ==
    \A i \in DOMAIN log :
        log[i].op = "print_event" =>
            \E j \in DOMAIN out : out[j].kind = "event" /\ out[j].idx = log[i].arg

\* C5: a 'today' run whose list call returned and in which no event matches
\* today, the list being empty or not, prints "Nothing left for today!"
\* exactly once and never calls print_event.
C5_ZeroMatchesPrintNothingLeft ==
    (RunEnded /\ argv.cmd = "today" /\ ListReturned /\ MatchIdx = {}) =>
        /\ NumLines("Nothing left for today!") = 1
        /\ NumOps("print_event") = 0

\* C5 (amended): in a 'today' run whose list call returned and in which no
\* event matches today, print_event is never called, and: an empty list
\* prints "No events found." once and not "Nothing left for today!"; a
\* non-empty list whose scan completes prints "Nothing left for today!"
\* exactly once and not "No events found."; a scan that an event without a
\* start value aborts prints neither.
C5_ZeroMatchesMessage ==
    (RunEnded /\ argv.cmd = "today" /\ ListReturned /\ MatchIdx = {}) =>
        /\ NumOps("print_event") = 0
        /\ NumLines("event") = 0
        /\ NumLines("No events found.") = (IF events = <<>> THEN 1 ELSE 0)
        /\ NumLines("Nothing left for today!")
             = (IF events # <<>> /\ err = "none" THEN 1 ELSE 0)

C5_Witness ==
    /\ RunEnded
    /\ argv.cmd = "today"
    /\ ListReturned
    /\ Len(events) >= 2
    /\ MatchIdx = {}
    /\ err = "none"
    /\ out[Len(out)] = Line("Nothing left for today!")

\* C6: a 'today' run whose list call returned prints exactly the events
\* whose start value begins with the today string, in the order of the
\* list, each once.
C6_TodayPrintsExactlyMatches ==
    (RunEnded /\ argv.cmd = "today" /\ ListReturned) =>
        /\ Len(PrintedEvents) = Cardinality(MatchIdx)
        /\ \A k \in DOMAIN PrintedEvents : PrintedEvents[k].idx \in MatchIdx
        /\ \A k, m \in DOMAIN PrintedEvents :
               k < m => PrintedEvents[k].idx < PrintedEvents[m].idx

\* A token file that holds an expired token with a refresh token.
ExpiredWithRefresh == file0.kind = "ok" /\ file0.cred.expired /\ file0.cred.refresh

\* C7: for an expired token with a refresh token the interactive flow is
\* never started and one refresh request is made; when it succeeds the
\* refreshed token is written to the token file before the service is
\* built and returned; when it fails the token file is not written.
C7_ExpiredTokenRefreshed ==
    ExpiredWithRefresh =>
        /\ NumOps("flow") = 0
        /\ (ArgsValid(argv) /\ pc \notin {"parse", "exists", "check", "refresh"})
             => NumOps("refresh") = 1
        /\ \A b \in DOMAIN log :
               log[b].op = "build" =>
                   /\ \E r, w \in DOMAIN log :
                          /\ r < w
                          /\ w < b
                          /\ log[r].op = "refresh"
                          /\ log[w].op = "write"
                   /\ tokenFile = [kind |-> "ok", cred |-> Cred(TRUE, FALSE, TRUE, 1)]
                   /\ creds.cred = tokenFile.cred
        /\ err = "RefreshError" =>
               /\ NumOps("write") = 0
               /\ NumOps("build") = 0
               /\ tokenFile = file0

C7_Witness ==
    /\ ExpiredWithRefresh
    /\ NumOps("refresh") = 1
    /\ NumOps("write") = 1
    /\ NumOps("build") = 1
    /\ tokenFile # file0

\* A token file that holds a valid token: a token that has not expired.
ValidOnDisk == file0.kind = "ok" /\ file0.cred.hasToken /\ ~file0.cred.expired

\* C8: for a valid token loaded from disk the service is returned without
\* an interactive flow, without a refresh request and without a write of
\* the token file.
C8_ValidTokenNoPrompt ==
    ValidOnDisk =>
        /\ NumOps("flow") = 0
        /\ NumOps("refresh") = 0
        /\ NumOps("write") = 0
        /\ tokenFile = file0
        /\ err \notin {"ValueError", "RefreshError", "FlowError"}
        /\ RunEnded => NumOps("build") = 1

C8_Witness ==
    /\ ValidOnDisk
    /\ RunEnded
    /\ NumOps("read") = 1
    /\ NumOps("build") = 1

\* C9: 'next' with an empty list prints "No upcoming events found." and
\* calls print_event not at all; with a non-empty list it calls print_event
\* exactly once, on the first event, and does not print that message.
C9_NextPrintsFirstOrNone ==
    (RunEnded /\ argv.cmd = "next" /\ ListReturned) =>
        IF events = <<>>
        THEN /\ out = <<Line("No upcoming events found.")>>
             /\ NumOps("print_event") = 0
        ELSE /\ NumOps("print_event") = 1
             /\ \A i \in DOMAIN log : log[i].op = "print_event" => log[i].arg = 1
             /\ NumLines("No upcoming events found.") = 0
             /\ \A j \in DOMAIN out : out[j].kind = "event" => out[j].idx = 1

C9_Witness ==
    /\ RunEnded
    /\ argv.cmd = "next"
    /\ ListReturned
    /\ Len(events) >= 2
    /\ events[1] # events[Len(events)]
    /\ NumOps("print_event") = 1
    /\ NumLines("event") = 1

\* The credential of the run is not the one the run started with: a
\* refresh or an interactive authorization succeeded.
CredentialChanged == creds.some /\ creds.cred.gen # 0

\* C10: the token file is read at most once and written at most once, a
\* read comes before a write, the file is written exactly when the
\* credential changed (with the changed credential), and a run whose
\* refresh or interactive flow fails leaves the file as it was.
C10_TokenFileAccess ==
    /\ NumOps("read") <= 1
    /\ NumOps("write") <= 1
    /\ \A r, w \in DOMAIN log : (log[r].op = "read" /\ log[w].op = "write") => r < w
    /\ pc # "write" => (NumOps("write") = 1 <=> CredentialChanged)
    /\ NumOps("write") = 1 => tokenFile = [kind |-> "ok", cred |-> creds.cred]
    /\ NumOps("write") = 0 => tokenFile = file0
    /\ err \in {"RefreshError", "FlowError"} => tokenFile = file0 /\ NumOps("write") = 0

C10_Witness ==
    /\ RunEnded
    /\ NumOps("read") = 1
    /\ NumOps("flow") = 1
    /\ NumOps("write") = 1
    /\ tokenFile # file0

=============================================================================
